---- MODULE Spec2Model ----
(***************************************************************************)
(* A model of webhook_server.py: the GET /webhook handshake, the POST      *)
(* /webhook update receiver, the signature verifier, the command processor *)
(* and the message sender.                                                 *)
(*                                                                         *)
(* Python str values that the code inspects (header values, text bodies)   *)
(* are sequences of characters, one TLA+ string per character; a character *)
(* outside ASCII is written as its code point ("U+00E9").  Values that the *)
(* code only compares or passes on (tokens, the challenge, response        *)
(* bodies, environment values) are TLA+ strings.  JSON documents are       *)
(* tagged records; Python None and JSON null are the same value, JNull.    *)
(***************************************************************************)
EXTENDS Integers, Sequences, FiniteSets, TLC

(***************************************************************************)
(* Bounds of the model.                                                    *)
(***************************************************************************)
\* the longest value.messages list of the generated update bodies
MaxMsgs == 3
\* the number of deliveries of one POST in flight together (SpecReplay)
MaxDeliveries == 2
\* the number of hex characters of a digest (64 in hashlib.sha256)
DigestHexLen == 4

(***************************************************************************)
(* Python str                                                              *)
(***************************************************************************)
UpperCase == <<"A","B","C","D","E","F","G","H","I","J","K","L","M",
               "N","O","P","Q","R","S","T","U","V","W","X","Y","Z">>

LowerCase == <<"a","b","c","d","e","f","g","h","i","j","k","l","m",
               "n","o","p","q","r","s","t","u","v","w","x","y","z">>

\* characters outside ASCII that a latin-1 decoded header value can hold
NonAsciiChars == {"U+00E9", "U+00B1"}

IsAscii(s) == \A i \in 1..Len(s) : s[i] \notin NonAsciiChars

LowerChar(c) ==
    IF \E i \in 1..Len(UpperCase) : UpperCase[i] = c
    THEN LowerCase[CHOOSE i \in 1..Len(UpperCase) : UpperCase[i] = c]
    ELSE c

UpperChar(c) ==
    IF \E i \in 1..Len(LowerCase) : LowerCase[i] = c
    THEN UpperCase[CHOOSE i \in 1..Len(LowerCase) : LowerCase[i] = c]
    ELSE c

\* a lower() that leaves the case alone
LowerKeepsCase(s) == s

\* str.lower()
Lower(s) == [i \in 1..Len(s) |-> LowerChar(s[i])]

\* str.upper(), used only to build request headers
Upper(s) == [i \in 1..Len(s) |-> UpperChar(s[i])]

(***************************************************************************)
(* JSON documents, as json.loads returns them                              *)
(***************************************************************************)
JNull == [t |-> "null"]
JNum == [t |-> "num"]
JStr(s) == [t |-> "str", s |-> s]
JList(items) == [t |-> "list", items |-> items]
\* an object is its key/value pairs in document order
JObj(kv) == [t |-> "obj", kv |-> kv]
KV(k, v) == [k |-> k, v |-> v]
\* the outcome of an expression that raised
Raised == [t |-> "raise"]

HasKey(o, k) == \E i \in 1..Len(o.kv) : o.kv[i].k = k

\* dict.get(k, default); AttributeError on anything that is not a dict
DictGet(o, k, default) ==
    IF o.t # "obj" THEN Raised
    ELSE IF HasKey(o, k)
         THEN o.kv[CHOOSE i \in 1..Len(o.kv) :
                     /\ o.kv[i].k = k
                     /\ \A j \in (i+1)..Len(o.kv) : o.kv[j].k # k].v
         ELSE default

\* x[0]: IndexError on an empty list or str, KeyError on a dict, TypeError
\* on None and on a number
Index0(x) ==
    CASE x.t = "list" -> IF Len(x.items) > 0 THEN x.items[1] ELSE Raised
      [] x.t = "str" -> IF Len(x.s) > 0 THEN JStr(<<x.s[1]>>) ELSE Raised
      [] OTHER -> Raised

\* what "for message in x" iterates: the items of a list, the characters of
\* a str, the keys of a dict; TypeError on None and on a number
Iterate(x) ==
    CASE x.t = "list" -> x.items
      [] x.t = "str" -> [i \in 1..Len(x.s) |-> JStr(<<x.s[i]>>)]
      [] x.t = "obj" -> [i \in 1..Len(x.kv) |-> JStr(x.kv[i].k)]
      [] OTHER -> <<>>

IsIterable(x) == x.t \in {"list", "str", "obj"}

(***************************************************************************)
(* String-keyed maps that the code reads with .get: the request headers,   *)
(* the query parameters and the process environment.  A map is the set of  *)
(* its (name, value) pairs; a name that is not there reads as None.        *)
(***************************************************************************)
Pair(name, value) == [name |-> name, value |-> value]

Has(m, name) == \E p \in m : p.name = name

Lookup(m, name) == (CHOOSE p \in m : p.name = name).value

\* None, where the code expects a str
PyNone == <<"None">>

\* request.headers.get(name)
HeaderGet(headers, name) ==
    IF Has(headers, name) THEN Lookup(headers, name) ELSE PyNone

(***************************************************************************)
(* Literals of the source                                                  *)
(***************************************************************************)
K_entry == <<"e","n","t","r","y">>
K_changes == <<"c","h","a","n","g","e","s">>
K_field == <<"f","i","e","l","d">>
K_value == <<"v","a","l","u","e">>
K_messages == <<"m","e","s","s","a","g","e","s">>
K_type == <<"t","y","p","e">>
K_text == <<"t","e","x","t">>
K_body == <<"b","o","d","y">>
K_from == <<"f","r","o","m">>
S_status == <<"s","t","a","t","u","s">>
S_help == <<"h","e","l","p">>
S_prefix == <<"s","h","a","2","5","6","=">>

StatusText == "WhatsApp webhook is running. Use 'help' to see available commands."

\* the bullets of the source are written *
HelpText == "Available Commands:\n* status - Check webhook status\n* help - Show this help message"

SignatureHeader == "X-Hub-Signature-256"

(***************************************************************************)
(* Signature Verifier                                                      *)
(***************************************************************************)
HexDigits == <<"0","1","2","3","4","5","6","7","8","9","a","b","c","d","e","f">>

RECURSIVE Pow16(_)
Pow16(n) == IF n = 0 THEN 1 ELSE 16 * Pow16(n - 1)

\* the keys the model can hash under; a request body is the number of its
\* byte string, so (key, payload) -> digest below is injective, as
\* HMAC-SHA256 is taken to be
Keys == <<"", "app-secret-1", "app-secret-2">>

KeyNum(key) == (CHOOSE i \in 1..Len(Keys) : Keys[i] = key) - 1

\* hmac.new(key, payload, hashlib.sha256): the digest as a number
HmacSha256(key, payload) ==
    (payload * Len(Keys) + KeyNum(key)) % Pow16(DigestHexLen)

\* .hexdigest(): DigestHexLen lowercase hex characters, most significant
\* first
HexDigest(d) ==
    [i \in 1..DigestHexLen |->
        HexDigits[((d \div Pow16(DigestHexLen - i)) % 16) + 1]]

\* hmac.compare_digest(a, b) on two str: "TypeError" when either is None
\* or holds a character outside ASCII, else whether they are equal
CompareDigest(a, b) ==
    IF a = PyNone \/ b = PyNone \/ ~IsAscii(a) \/ ~IsAscii(b) THEN "TypeError"
    ELSE IF a = b THEN "True" ELSE "False"

\* os.getenv(name) is None or empty: "if not app_secret"
EnvMissing(env, name) == ~Has(env, name) \/ Lookup(env, name) = ""

\* a verifier without the "if not app_secret" guard: None has no encode,
\* and the empty secret is a key like any other
verify_signature_unguarded(env, payload, signature) ==
    IF ~Has(env, "WHATSAPP_APP_SECRET") THEN "AttributeError"
    ELSE CompareDigest(signature,
            S_prefix \o HexDigest(HmacSha256(Lookup(env, "WHATSAPP_APP_SECRET"),
                                             payload)))

\* verify_signature(payload, signature) under the environment env:
\* "True", "False", or the exception it raises
verify_signature(env, payload, signature) ==
    IF EnvMissing(env, "WHATSAPP_APP_SECRET") THEN "False"
    ELSE LET app_secret == Lookup(env, "WHATSAPP_APP_SECRET")
             expected_signature == HexDigest(HmacSha256(app_secret, payload))
         IN  CompareDigest(signature, S_prefix \o expected_signature)

(***************************************************************************)
(* Message Sender                                                          *)
(***************************************************************************)
\* send_whatsapp_message(to, message): one outbound call, which returns
\* the parsed answer (ok) or raises (~ok)
send_whatsapp_message(to, message, ok) ==
    [to |-> to, message |-> message, ok |-> ok]

(***************************************************************************)
(* Command Processor                                                       *)
(***************************************************************************)
\* process_message without its try/except: what raises inside leaves it
process_message_uncaught(message, ok) ==
    LET message_type == DictGet(message, K_type, JNull)
        text == DictGet(DictGet(message, K_text, JObj(<<>>)), K_body, JStr(<<>>))
        from_number == DictGet(message, K_from, JNull)
        none == [calls |-> <<>>, raised |-> FALSE, propagated |-> FALSE]
        failed == [calls |-> <<>>, raised |-> TRUE, propagated |-> TRUE]
        reply(m) == [calls |-> <<send_whatsapp_message(from_number, m, ok)>>,
                     raised |-> ~ok, propagated |-> ~ok]
    IN  IF message_type = Raised THEN failed
        ELSE IF message_type # JStr(K_text) THEN none
        ELSE IF text = Raised \/ text.t # "str" THEN failed
        ELSE IF Lower(text.s) = S_status THEN reply(StatusText)
        ELSE IF Lower(text.s) = S_help THEN reply(HelpText)
        ELSE none

\* process_message(message), where ok is the outcome of the outbound call
\* if one is made.  calls: the sends invoked; raised: an exception occurred
\* in the try block; propagated: it left process_message (the except
\* clause catches every Exception, so never)
process_message(message, ok) ==
    LET message_type == DictGet(message, K_type, JNull)
        text == DictGet(DictGet(message, K_text, JObj(<<>>)), K_body, JStr(<<>>))
        from_number == DictGet(message, K_from, JNull)
        none == [calls |-> <<>>, raised |-> FALSE, propagated |-> FALSE]
        failed == [calls |-> <<>>, raised |-> TRUE, propagated |-> FALSE]
        reply(m) == [calls |-> <<send_whatsapp_message(from_number, m, ok)>>,
                     raised |-> ~ok, propagated |-> FALSE]
    IN  IF message_type = Raised THEN failed
        ELSE IF message_type # JStr(K_text) THEN none
        ELSE IF text = Raised \/ text.t # "str" THEN failed
        ELSE IF Lower(text.s) = S_status THEN reply(StatusText)
        ELSE IF Lower(text.s) = S_help THEN reply(HelpText)
        ELSE none

(***************************************************************************)
(* Webhook Endpoint: the envelope                                          *)
(***************************************************************************)
\* update.get('entry', [])[0]: a default that has no first item
EntryOfEmptyDefault(update) == Index0(DictGet(update, K_entry, JList(<<>>)))

\* update.get('entry', [{}])[0]
EntryOf(update) == Index0(DictGet(update, K_entry, JList(<<JObj(<<>>)>>)))

\* entry.get('changes', [{}])[0]
ChangesOf(entry) == Index0(DictGet(entry, K_changes, JList(<<JObj(<<>>)>>)))

\* the messages of one change, none unless its field is 'messages'
MessagesOfChange(change) ==
    IF change.t = "obj" /\ DictGet(change, K_field, JNull) = JStr(K_messages)
    THEN LET messages == DictGet(DictGet(change, K_value, JObj(<<>>)),
                                 K_messages, JList(<<>>))
         IN  IF messages.t = "list" THEN messages.items ELSE <<>>
    ELSE <<>>

RECURSIVE MessagesOfChanges(_)
MessagesOfChanges(changes) ==
    IF changes = <<>> THEN <<>>
    ELSE MessagesOfChange(Head(changes)) \o MessagesOfChanges(Tail(changes))

RECURSIVE MessagesOfEntries(_)
MessagesOfEntries(entries) ==
    IF entries = <<>> THEN <<>>
    ELSE LET changes == DictGet(Head(entries), K_changes, JList(<<>>))
         IN  (IF changes.t = "list" THEN MessagesOfChanges(changes.items) ELSE <<>>)
             \o MessagesOfEntries(Tail(entries))

\* a handler that walks every entry and every change
SelectMessagesOfAll(update) ==
    LET entries == DictGet(update, K_entry, JList(<<>>))
    IN  IF entries.t # "list" THEN Raised
        ELSE JList(MessagesOfEntries(entries.items))

\* lines 98-103: the value the for loop iterates; JList(<<>>) when the
\* field is not 'messages', Raised when a step raises
SelectMessages(update) ==
    LET entry == EntryOf(update)
        changes == IF entry = Raised THEN Raised ELSE ChangesOf(entry)
        field == IF changes = Raised THEN Raised
                 ELSE DictGet(changes, K_field, JNull)
    IN  IF field = Raised THEN Raised
        ELSE IF field # JStr(K_messages) THEN JList(<<>>)
        ELSE LET value == DictGet(changes, K_value, JObj(<<>>))
                 messages == DictGet(value, K_messages, JList(<<>>))
             IN  IF messages = Raised \/ ~IsIterable(messages) THEN Raised
                 ELSE messages

(***************************************************************************)
(* The request bodies of the model.  A body is the number of its byte      *)
(* string; Document(n) is what json.loads makes of body n.                *)
(***************************************************************************)
NotJson == [t |-> "notjson"]

Chars123 == <<"1","2","3">>
Chars456 == <<"4","5","6">>

\* {"type": type, "from": from, "text": {"body": body}}
TextMessage(type, from, body) ==
    JObj(<<KV(K_type, JStr(type)), KV(K_from, JStr(from)),
           KV(K_text, JObj(<<KV(K_body, body)>>))>>)

\* the message records the generated value.messages lists are made of
MessageCatalog ==
    << TextMessage(K_text, Chars123, JStr(<<"S","t","a","t","u","s">>)),
       TextMessage(K_text, Chars456, JStr(S_help)),
       TextMessage(K_text, Chars123, JStr(<<"H","E","L","P">>)),
       TextMessage(K_text, Chars123, JStr(<<"f","o","o">>)),
       TextMessage(<<"i","m","a","g","e">>, Chars123, JStr(S_status)),
       JNull >>

\* the number of lists over the catalog of length below n
RECURSIVE ListsBelow(_)
ListsBelow(n) ==
    IF n = 0 THEN 0 ELSE 1 + Len(MessageCatalog) * ListsBelow(n - 1)

\* the k-th list (from 0) of length n over the catalog
RECURSIVE ListOfLen(_, _)
ListOfLen(k, n) ==
    IF n = 0 THEN <<>>
    ELSE Append(ListOfLen(k \div Len(MessageCatalog), n - 1),
                MessageCatalog[(k % Len(MessageCatalog)) + 1])

\* the k-th list (from 1) among the lists of every length, shortest first
RECURSIVE ListAtFrom(_, _)
ListAtFrom(k, n) ==
    IF k <= ListsBelow(n + 1) THEN ListOfLen(k - ListsBelow(n) - 1, n)
    ELSE ListAtFrom(k, n + 1)

ListAt(k) == ListAtFrom(k, 0)

\* {"field": field, "value": {"messages": messages}}
Change(field, messages) ==
    JObj(<<KV(K_field, JStr(field)),
           KV(K_value, JObj(<<KV(K_messages, messages)>>))>>)

\* {"changes": [...]}
Entry(changes) == JObj(<<KV(K_changes, JList(changes))>>)

\* {"entry": [...]}
Update(entries) == JObj(<<KV(K_entry, JList(entries))>>)

\* the envelope of the data model around one messages value
Envelope(messages) == Update(<<Entry(<<Change(K_messages, messages)>>)>>)

Status123 == MessageCatalog[1]
Help456 == MessageCatalog[2]
K_statuses == <<"s","t","a","t","u","s","e","s">>

\* {"type": "text", "from": "123", "text": null}
TextNull123 ==
    JObj(<<KV(K_type, JStr(K_text)), KV(K_from, JStr(Chars123)), KV(K_text, JNull)>>)

\* {"type": "text", "text": {"body": "status"}}
StatusFromNobody ==
    JObj(<<KV(K_type, JStr(K_text)),
           KV(K_text, JObj(<<KV(K_body, JStr(S_status))>>))>>)

\* bodies that are not JSON, not an object, or whose envelope lacks keys or
\* holds values of another shape
ShapeDocuments ==
    << NotJson, JNull, JNum, JList(<<>>), JStr(S_status),
       JObj(<<>>),
       JObj(<<KV(K_entry, JNull)>>),
       Update(<<>>),
       Update(<<JNull>>),
       Update(<<JObj(<<>>)>>),
       Update(<<JObj(<<KV(K_changes, JNull)>>)>>),
       Update(<<Entry(<<>>)>>),
       Update(<<Entry(<<JNum>>)>>),
       Update(<<Entry(<<JObj(<<>>)>>)>>),
       Update(<<Entry(<<JObj(<<KV(K_field, JStr(K_messages))>>)>>)>>),
       Update(<<Entry(<<JObj(<<KV(K_field, JStr(K_messages)),
                               KV(K_value, JObj(<<>>))>>)>>)>>),
       Update(<<Entry(<<JObj(<<KV(K_field, JStr(K_messages)),
                               KV(K_value, JNull)>>)>>)>>),
       Update(<<Entry(<<JObj(<<KV(K_value,
                   JObj(<<KV(K_messages, JList(<<Status123>>))>>))>>)>>)>>),
       Update(<<Entry(<<JObj(<<KV(K_field, JNull), KV(K_value,
                   JObj(<<KV(K_messages, JList(<<Status123>>))>>))>>)>>)>>),
       Update(<<Entry(<<Change(K_statuses, JList(<<Status123>>))>>)>>),
       Envelope(JNull),
       Envelope(JNum),
       Envelope(JStr(S_status)),
       Envelope(Status123),
       Envelope(JList(<<JObj(<<>>)>>)),
       Envelope(JList(<<TextMessage(K_text, Chars123, JNum)>>)),
       Envelope(JList(<<TextMessage(K_text, Chars123, JNum), Help456>>)),
       Envelope(JList(<<TextNull123, Status123>>)),
       Envelope(JList(<<StatusFromNobody>>)),
       Envelope(JList(<<StatusFromNobody, TextNull123, MessageCatalog[3]>>)),
       Envelope(JList(<<JObj(<<KV(K_type, JStr(K_text)),
                               KV(K_from, JStr(Chars123))>>)>>)),
       Envelope(JList(<<JObj(<<KV(K_type, JNull), KV(K_from, JStr(Chars123)),
                   KV(K_text, JObj(<<KV(K_body, JStr(S_status))>>))>>)>>)),
       JObj(<<KV(K_entry, JList(<<>>)),
              KV(K_entry, JList(<<Entry(<<Change(K_messages,
                                      JList(<<Help456>>))>>)>>))>>) >>

\* envelopes with two entries, the first with two changes
FanOutLists == << <<>>, <<Status123>>, <<Help456>> >>

FanOut(a, b, c, field) ==
    Update(<<Entry(<<Change(field, JList(a)), Change(K_messages, JList(b))>>),
             Entry(<<Change(K_messages, JList(c))>>)>>)

FanOutDocuments ==
    LET n == Len(FanOutLists)
    IN  [i \in 1..(n * n * n) |->
            FanOut(FanOutLists[((i - 1) \div (n * n)) + 1],
                   FanOutLists[(((i - 1) \div n) % n) + 1],
                   FanOutLists[((i - 1) % n) + 1], K_messages)]
        \o << FanOut(<<Status123>>, <<Help456>>, <<Status123>>, K_statuses),
              Update(<<JObj(<<>>), Entry(<<Change(K_messages,
                                                 JList(<<Status123>>))>>)>>),
              Update(<<Entry(<<JObj(<<>>), Change(K_messages,
                                                 JList(<<Status123>>))>>)>>) >>

\* the number of bodies: the shapes, the fan-outs, then an envelope around
\* every list of up to MaxMsgs messages
NumBodies == Len(ShapeDocuments) + Len(FanOutDocuments) + ListsBelow(MaxMsgs + 1)

Bodies == 1..NumBodies

Document(body) ==
    IF body <= Len(ShapeDocuments) THEN ShapeDocuments[body]
    ELSE IF body <= Len(ShapeDocuments) + Len(FanOutDocuments)
    THEN FanOutDocuments[body - Len(ShapeDocuments)]
    ELSE Envelope(JList(ListAt(body - Len(ShapeDocuments) - Len(FanOutDocuments))))

\* json.loads(body): the document, or Raised (JSONDecodeError)
json_loads(body) == IF Document(body) = NotJson THEN Raised ELSE Document(body)

(***************************************************************************)
(* Webhook Endpoint: GET /webhook                                          *)
(***************************************************************************)
Response(status_code, content) == [status |-> status_code, body |-> content]

\* no response yet
NoResponse == Response(0, "")

\* a query parameter that is there and not empty: "if mode and token"
Truthy(query, name) == Has(query, name) /\ Lookup(query, name) # ""

\* a handshake that compares the token and forgets the mode
verify_webhook_any_mode(env, query) ==
    IF Truthy(query, "hub.mode") /\ Truthy(query, "hub.verify_token")
    THEN IF /\ Has(env, "WHATSAPP_VERIFY_TOKEN")
            /\ Lookup(query, "hub.verify_token") = Lookup(env, "WHATSAPP_VERIFY_TOKEN")
         THEN Response(200, IF Has(query, "hub.challenge")
                            THEN Lookup(query, "hub.challenge") ELSE "")
         ELSE Response(403, "")
    ELSE Response(200, "null")

\* verify_webhook(request): the response.  A handler that returns nothing
\* is answered by the framework with 200 and the JSON body null.
verify_webhook(env, query) ==
    IF Truthy(query, "hub.mode") /\ Truthy(query, "hub.verify_token")
    THEN IF /\ Lookup(query, "hub.mode") = "subscribe"
            /\ Has(env, "WHATSAPP_VERIFY_TOKEN")
            /\ Lookup(query, "hub.verify_token") = Lookup(env, "WHATSAPP_VERIFY_TOKEN")
         THEN Response(200, IF Has(query, "hub.challenge")
                            THEN Lookup(query, "hub.challenge") ELSE "")
         ELSE Response(403, "")
    ELSE Response(200, "null")

(***************************************************************************)
(* The state                                                               *)
(***************************************************************************)
VARIABLES
    env,        \* the process environment, read-only after start
    tasks,      \* the request each handler task is serving and where it is
    sends,      \* the outbound calls made, in order: [task, to, message, ok]
    replayed    \* SpecReplay: the POST that is delivered again and again

vars == <<env, tasks, sends, replayed>>

Tasks == 1..MaxDeliveries

NoRequest == [headers |-> {}, body |-> 0]

\* a task that serves no request
Idle ==
    [pc |-> "idle", method |-> "-", query |-> {}, headers |-> {}, body |-> 0,
     verdict |-> "-", messages |-> <<>>, i |-> 0, seen |-> <<>>, caught |-> 0,
     resp |-> NoResponse]

Environments ==
    { secret \cup token :
        secret \in {{}} \cup {{Pair("WHATSAPP_APP_SECRET", Keys[k])} : k \in 1..Len(Keys)},
        token \in {{}, {Pair("WHATSAPP_VERIFY_TOKEN", "verify-token")}} }

(***************************************************************************)
(* The requests of the model                                               *)
(***************************************************************************)
Queries ==
    { mode \cup token \cup challenge :
        mode \in {{}} \cup {{Pair("hub.mode", m)} : m \in {"", "subscribe", "unsubscribe"}},
        token \in {{}} \cup {{Pair("hub.verify_token", v)} : v \in {"", "verify-token", "wrong"}},
        challenge \in {{}} \cup {{Pair("hub.challenge", c)} : c \in {"abc123", "1158201444"}} }

\* "sha256=" and the lowercase hex digest of body under key
Signed(key, body) == S_prefix \o HexDigest(HmacSha256(key, body))

\* s with its last character replaced
WithLast(s, c) == [s EXCEPT ![Len(s)] = c]

\* header values tried with a body: the signature under every key, the
\* signature of the first body, then damaged ones
SignatureValues(body) ==
    {Signed(Keys[k], body) : k \in 1..Len(Keys)}
    \cup {Signed(Keys[2], 1)}
    \cup {S_prefix \o Upper(HexDigest(HmacSha256(Keys[2], body)))}
    \cup {HexDigest(HmacSha256(Keys[2], body))}
    \cup {WithLast(Signed(Keys[2], body), "U+00E9")}
    \cup {WithLast(Signed(Keys[3], body), "0")}
    \cup {<<>>, S_prefix, <<"U+00B1">>}

PostRequestsWith(b) ==
    { [headers |-> h, body |-> b] :
        h \in {{}} \cup {{Pair(SignatureHeader, v)} : v \in SignatureValues(b)} }

PostRequests == UNION {PostRequestsWith(b) : b \in Bodies}

(***************************************************************************)
(* Webhook Endpoint: the handlers, step by step.  A POST task can be       *)
(* suspended where the handler awaits: at the read of the body and at each *)
(* process_message.                                                        *)
(***************************************************************************)
Finish(task, resp) == [task EXCEPT !.pc = "done", !.resp = resp]

\* GET /webhook: verify_webhook, start to end
GetRequest(r) ==
    /\ tasks[r].pc = "idle"
    /\ \E query \in Queries :
         tasks' = [tasks EXCEPT ![r] =
                     Finish([Idle EXCEPT !.method = "GET", !.query = query],
                            verify_webhook(env, query))]
    /\ UNCHANGED <<env, sends, replayed>>

\* a check that lets a request without the header through
NoSignatureBlankOnly(signature) == signature = <<>>

\* "if not signature": the header is not there, or is empty
NoSignature(signature) == signature = PyNone \/ signature = <<>>

\* POST /webhook, lines 86-88, for one of the given requests: up to the
\* read of the body
PostReceive(r, requests) ==
    /\ tasks[r].pc = "idle"
    /\ \E request \in requests :
         LET task == [Idle EXCEPT !.method = "POST",
                                  !.headers = request.headers,
                                  !.body = request.body]
         IN  tasks' = [tasks EXCEPT ![r] =
                          IF NoSignature(HeaderGet(request.headers, SignatureHeader))
                          THEN Finish(task, Response(403, "No signature"))
                          ELSE [task EXCEPT !.pc = "body"]]
    /\ UNCHANGED <<env, sends, replayed>>

\* lines 90-103 of one task: the signature check, json.loads and the way
\* to value.messages
AfterBody(task) ==
    LET verdict == verify_signature(env, task.body,
                                    HeaderGet(task.headers, SignatureHeader))
        checked == [task EXCEPT !.verdict = verdict]
        update == json_loads(task.body)
        messages == IF update = Raised THEN Raised ELSE SelectMessages(update)
    IN  IF verdict \notin {"True", "False"}
        THEN Finish(checked, Response(500, ""))
        ELSE IF verdict = "False"
             THEN Finish(checked, Response(403, "Invalid signature"))
        ELSE IF messages = Raised THEN Finish(checked, Response(500, ""))
        ELSE [checked EXCEPT !.pc = "loop", !.messages = Iterate(messages),
                             !.i = 1]

PostVerify(r) ==
    /\ tasks[r].pc = "body"
    /\ tasks' = [tasks EXCEPT ![r] = AfterBody(tasks[r])]
    /\ UNCHANGED <<env, sends, replayed>>

\* a sender that drops a call whose recipient and text were sent before
OutboundDeduplicated(log, r, calls) ==
    LET fresh == SelectSeq(calls, LAMBDA c :
                    \A k \in 1..Len(log) :
                        log[k].to # c.to \/ log[k].message # c.message)
    IN  log \o [k \in 1..Len(fresh) |->
                   [task |-> r, to |-> fresh[k].to, message |-> fresh[k].message,
                    ok |-> fresh[k].ok]]

\* the record of outbound calls after task r has made these calls: every
\* invocation of send_whatsapp_message is one call of its own
Outbound(log, r, calls) ==
    log \o [k \in 1..Len(calls) |->
               [task |-> r, to |-> calls[k].to, message |-> calls[k].message,
                ok |-> calls[k].ok]]

\* lines 105-106: one turn of the loop, process_message(message) with the
\* outbound call it makes; ok is whether that call returns
PostProcess(r, ok) ==
    /\ tasks[r].pc = "loop"
    /\ tasks[r].i <= Len(tasks[r].messages)
    /\ LET task == tasks[r]
           message == task.messages[task.i]
           done == process_message(message, ok)
           logged == [task EXCEPT !.seen = Append(@, message),
                                  !.caught = @ + (IF done.raised THEN 1 ELSE 0)]
       IN  /\ sends' = Outbound(sends, r, done.calls)
           /\ tasks' = [tasks EXCEPT ![r] =
                           IF done.propagated
                           THEN Finish(logged, Response(500, ""))
                           ELSE [logged EXCEPT !.i = @ + 1]]
    /\ UNCHANGED <<env, replayed>>

\* line 108: the loop is over
PostRespond(r) ==
    /\ tasks[r].pc = "loop"
    /\ tasks[r].i > Len(tasks[r].messages)
    /\ tasks' = [tasks EXCEPT ![r] = Finish(@, Response(200, ""))]
    /\ UNCHANGED <<env, sends, replayed>>

\* the response is sent and the task ends; its calls leave the record
Close(r) ==
    /\ tasks[r].pc = "done"
    /\ tasks' = [tasks EXCEPT ![r] = Idle]
    /\ sends' = SelectSeq(sends, LAMBDA c : c.task # r)
    /\ UNCHANGED <<env, replayed>>

(***************************************************************************)
(* Spec: requests of every kind, served one after the other.               *)
(***************************************************************************)
Init ==
    /\ env \in Environments
    /\ tasks = [r \in Tasks |-> Idle]
    /\ sends = <<>>
    /\ replayed = NoRequest

Next ==
    \/ GetRequest(1)
    \/ PostReceive(1, PostRequests)
    \/ PostVerify(1)
    \/ \E ok \in BOOLEAN : PostProcess(1, ok)
    \/ PostRespond(1)
    \/ Close(1)

Spec == Init /\ [][Next]_vars

(***************************************************************************)
(* SpecReplay: one correctly signed POST delivered to every task, the      *)
(* tasks running interleaved.                                              *)
(***************************************************************************)
ReplayedEnv ==
    {Pair("WHATSAPP_APP_SECRET", Keys[2]),
     Pair("WHATSAPP_VERIFY_TOKEN", "verify-token")}

ReplayedLists ==
    { <<Status123>>, <<Status123, Help456>>, <<MessageCatalog[4], MessageCatalog[3]>>,
      <<JNull, Status123>>, <<Status123, Status123>>, <<>> }

ReplayedBodies ==
    { b \in Bodies :
        \/ \E l \in ReplayedLists : Document(b) = Envelope(JList(l))
        \/ Document(b) \in {NotJson, Update(<<>>), JObj(<<>>)} }

InitReplay ==
    /\ env = ReplayedEnv
    /\ tasks = [r \in Tasks |-> Idle]
    /\ sends = <<>>
    /\ replayed \in { [headers |-> {Pair(SignatureHeader, Signed(Keys[2], b))},
                       body |-> b] : b \in ReplayedBodies }

NextReplay ==
    \E r \in Tasks :
        \/ PostReceive(r, {replayed})
        \/ PostVerify(r)
        \/ \E ok \in BOOLEAN : PostProcess(r, ok)
        \/ PostRespond(r)

SpecReplay == InitReplay /\ [][NextReplay]_vars

(***************************************************************************)
(* What the properties below speak of                                      *)
(***************************************************************************)
\* the calls task r has made, in order
SendsOf(r) == SelectSeq(sends, LAMBDA c : c.task = r)

Served(r, method) == tasks[r].method = method /\ tasks[r].pc # "idle"

Done(r, method) == tasks[r].method = method /\ tasks[r].pc = "done"

\* the secret is configured
SecretSet == Has(env, "WHATSAPP_APP_SECRET") /\ Lookup(env, "WHATSAPP_APP_SECRET") # ""

\* the header of task r is "sha256=" and the lowercase hex HMAC of its body
\* under the configured secret
Authentic(r) ==
    /\ SecretSet
    /\ Has(tasks[r].headers, SignatureHeader)
    /\ Lookup(tasks[r].headers, SignatureHeader)
         = S_prefix \o HexDigest(HmacSha256(Lookup(env, "WHATSAPP_APP_SECRET"),
                                            tasks[r].body))

\* C1: every POST /webhook whose X-Hub-Signature-256 header is there (and
\* not empty) but is not the signature of the body under the configured
\* secret is answered 403 "Invalid signature", and makes no send.
C1_InvalidSignatureIs403 ==
    \A r \in Tasks :
        ( /\ Done(r, "POST")
          /\ Has(tasks[r].headers, SignatureHeader)
          /\ Lookup(tasks[r].headers, SignatureHeader) # <<>>
          /\ ~Authentic(r) )
        => /\ tasks[r].resp = Response(403, "Invalid signature")
           /\ SendsOf(r) = <<>>

\* C2: every POST /webhook without an X-Hub-Signature-256 header is
\* answered 403 "No signature" at once: the verifier and the command
\* processor are not run and no send is made.
C2_NoSignatureIs403 ==
    \A r \in Tasks :
        (Served(r, "POST") /\ ~Has(tasks[r].headers, SignatureHeader))
        => /\ tasks[r].pc = "done"
           /\ tasks[r].resp = Response(403, "No signature")
           /\ tasks[r].verdict = "-"
           /\ tasks[r].seen = <<>>
           /\ SendsOf(r) = <<>>

\* a POST without the header, whose body holds a status command, answered
\* while the secret is configured
C2_Witness ==
    \E r \in Tasks :
        /\ Done(r, "POST")
        /\ ~Has(tasks[r].headers, SignatureHeader)
        /\ Document(tasks[r].body) = Envelope(JList(<<Status123>>))
        /\ SecretSet
        /\ tasks[r].resp.status = 403

\* C3: with a secret configured, verify_signature returns true for the
\* header "sha256=" + lowercase hex HMAC of the body under the secret, and
\* returns false for every other header value and every other body.
C3_VerifyTrueIffSigned ==
    \A r \in Tasks :
        (Served(r, "POST") /\ tasks[r].verdict # "-" /\ SecretSet)
        => /\ tasks[r].verdict \in {"True", "False"}
           /\ tasks[r].verdict = "True" <=> Authentic(r)

\* what remains of C1 and C3 for header values within ASCII: the verdict is
\* true or false, true exactly for the signature of the body, and a false
\* verdict is answered 403 "Invalid signature" without a send
AsciiSignaturesAreJudged ==
    \A r \in Tasks :
        ( /\ Served(r, "POST")
          /\ tasks[r].verdict # "-"
          /\ IsAscii(Lookup(tasks[r].headers, SignatureHeader)) )
        => /\ tasks[r].verdict \in {"True", "False"}
           /\ tasks[r].verdict = "True" <=> Authentic(r)
           /\ tasks[r].verdict = "False"
                => /\ tasks[r].resp = Response(403, "Invalid signature")
                   /\ SendsOf(r) = <<>>

\* C4: without a configured secret verify_signature returns false for
\* every payload and signature and never raises: every signed POST is
\* answered 403 and none reaches the command processor or makes a send.
C4_NoSecretFailsClosed ==
    ~SecretSet =>
        \A r \in Tasks :
            Served(r, "POST")
            => /\ tasks[r].verdict \in {"-", "False"}
               /\ tasks[r].pc \in {"body", "done"}
               /\ tasks[r].pc = "done" => tasks[r].resp.status = 403
               /\ tasks[r].seen = <<>>
               /\ SendsOf(r) = <<>>

\* the secret is set but empty, and a POST signed under the empty key, with
\* a status command in its body, has been refused by the verifier
C4_Witness ==
    \E r \in Tasks :
        /\ Has(env, "WHATSAPP_APP_SECRET")
        /\ ~SecretSet
        /\ Done(r, "POST")
        /\ HeaderGet(tasks[r].headers, SignatureHeader)
             = S_prefix \o HexDigest(HmacSha256("", tasks[r].body))
        /\ Document(tasks[r].body) = Envelope(JList(<<Status123>>))
        /\ tasks[r].verdict = "False"
        /\ tasks[r].resp = Response(403, "Invalid signature")

\* a call without the task that made it and without its outcome
Calls(r) ==
    LET mine == SendsOf(r)
    IN  [k \in 1..Len(mine) |-> [to |-> mine[k].to, message |-> mine[k].message]]

\* s is word (lowercase letters) up to the case of its letters
SameIgnoringCase(s, word) ==
    /\ Len(s) = Len(word)
    /\ \A i \in 1..Len(s) : s[i] = word[i] \/ s[i] = UpperChar(word[i])

\* the record is a dict of type "text" whose text.body is word in any case
IsCommand(m, word) ==
    /\ m.t = "obj"
    /\ HasKey(m, K_type) /\ DictGet(m, K_type, JNull) = JStr(K_text)
    /\ HasKey(m, K_text) /\ DictGet(m, K_text, JNull).t = "obj"
    /\ HasKey(DictGet(m, K_text, JNull), K_body)
    /\ DictGet(DictGet(m, K_text, JNull), K_body, JNull).t = "str"
    /\ SameIgnoringCase(DictGet(DictGet(m, K_text, JNull), K_body, JNull).s, word)

\* the sends the claims expect of one record
RepliesTo(m) ==
    IF IsCommand(m, S_status)
    THEN <<[to |-> DictGet(m, K_from, JNull), message |-> StatusText]>>
    ELSE IF IsCommand(m, S_help)
    THEN <<[to |-> DictGet(m, K_from, JNull), message |-> HelpText]>>
    ELSE <<>>

RECURSIVE RepliesToAll(_)
RepliesToAll(ms) ==
    IF ms = <<>> THEN <<>> ELSE RepliesTo(Head(ms)) \o RepliesToAll(Tail(ms))

\* C5: process_message makes at most one send per record: exactly one, to
\* the record's from, with the status text when type is "text" and the
\* lower-cased text.body is "status", or with the help text when it is
\* "help"; none for any other type or text.
C5_OneSendPerCommand ==
    \A r \in Tasks :
        Served(r, "POST") => Calls(r) = RepliesToAll(tasks[r].seen)

\* the message of the spec's example, "Status" from "123", has been
\* processed, followed by one that is no command
C5_Witness ==
    \E r \in Tasks :
        /\ Served(r, "POST")
        /\ tasks[r].seen = <<Status123, MessageCatalog[4]>>
        /\ Calls(r) = <<[to |-> JStr(Chars123), message |-> StatusText]>>

\* the first item of the list under key, {} when the key is missing
FirstUnder(o, key) ==
    IF HasKey(o, key) THEN DictGet(o, key, JNull).items[1] ELSE JObj(<<>>)

\* the envelope has the shape of the data model where the handler walks
\* it: entry and changes, if there, are lists that start with a dict;
\* value, if there, is a dict; messages, if there, is a list
EnvelopeShaped(update) ==
    /\ update # NotJson
    /\ update.t = "obj"
    /\ HasKey(update, K_entry)
         => LET entries == DictGet(update, K_entry, JNull)
            IN  /\ entries.t = "list" /\ Len(entries.items) > 0
                /\ entries.items[1].t = "obj"
    /\ LET entry == FirstUnder(update, K_entry)
       IN  /\ HasKey(entry, K_changes)
                => LET changes == DictGet(entry, K_changes, JNull)
                   IN  /\ changes.t = "list" /\ Len(changes.items) > 0
                       /\ changes.items[1].t = "obj"
           /\ LET change == FirstUnder(entry, K_changes)
              IN  HasKey(change, K_value)
                    => LET value == DictGet(change, K_value, JNull)
                       IN  /\ value.t = "obj"
                           /\ HasKey(value, K_messages)
                                => DictGet(value, K_messages, JNull).t = "list"

\* entry[0].changes[0] has the field "messages"
CarriesMessages(update) ==
    LET change == FirstUnder(FirstUnder(update, K_entry), K_changes)
    IN  HasKey(change, K_field) /\ DictGet(change, K_field, JNull) = JStr(K_messages)

\* the messages of entry[0].changes[0], none unless its field is "messages"
FirstChangeMessages(update) ==
    LET change == FirstUnder(FirstUnder(update, K_entry), K_changes)
    IN  IF /\ CarriesMessages(update)
           /\ HasKey(change, K_value)
           /\ HasKey(DictGet(change, K_value, JNull), K_messages)
        THEN DictGet(DictGet(change, K_value, JNull), K_messages, JNull).items
        ELSE <<>>

\* C6: in a correctly signed POST whose change carries a list of messages,
\* a failure while one message is processed (a malformed record, a send
\* that raises) stays inside process_message: every message of the list is
\* processed, in list order, and the response is 200.
C6_FailuresStayInTheMessage ==
    \A r \in Tasks :
        ( /\ Served(r, "POST")
          /\ tasks[r].verdict = "True"
          /\ EnvelopeShaped(Document(tasks[r].body))
          /\ CarriesMessages(Document(tasks[r].body)) )
        => LET batch == FirstChangeMessages(Document(tasks[r].body))
           IN  /\ tasks[r].pc \in {"loop", "done"}
               /\ Len(tasks[r].seen) <= Len(batch)
               /\ tasks[r].seen = SubSeq(batch, 1, Len(tasks[r].seen))
               /\ tasks[r].pc = "loop" => Len(tasks[r].seen) = tasks[r].i - 1
               /\ tasks[r].pc = "done"
                    => /\ tasks[r].resp = Response(200, "")
                       /\ tasks[r].seen = batch

\* a batch of a null record, a status command whose send raised and a help
\* command whose send returned, answered 200
C6_Witness ==
    \E r \in Tasks :
        /\ Done(r, "POST")
        /\ tasks[r].seen = <<JNull, Status123, Help456>>
        /\ tasks[r].caught = 2
        /\ Len(SendsOf(r)) = 2
        /\ ~SendsOf(r)[1].ok /\ SendsOf(r)[2].ok
        /\ tasks[r].resp.status = 200

\* the token of the query is the configured verify token
TokenMatches(query) ==
    /\ Has(env, "WHATSAPP_VERIFY_TOKEN")
    /\ Lookup(query, "hub.verify_token") = Lookup(env, "WHATSAPP_VERIFY_TOKEN")

Challenge(query) ==
    IF Has(query, "hub.challenge") THEN Lookup(query, "hub.challenge") ELSE ""

\* C7 as stated: GET /webhook with hub.mode and hub.verify_token both
\* present answers 200 with the challenge exactly when mode is "subscribe"
\* and the token is the configured one, and 403 with an empty body
\* otherwise.
C7_HandshakeWhenPresent ==
    \A r \in Tasks :
        ( /\ Done(r, "GET")
          /\ Has(tasks[r].query, "hub.mode")
          /\ Has(tasks[r].query, "hub.verify_token") )
        => tasks[r].resp =
             IF /\ Lookup(tasks[r].query, "hub.mode") = "subscribe"
                /\ TokenMatches(tasks[r].query)
             THEN Response(200, Challenge(tasks[r].query))
             ELSE Response(403, "")

\* C7, amended: GET /webhook with hub.mode and hub.verify_token both
\* present and not empty answers 200 with the challenge exactly when mode
\* is "subscribe" and the token is the configured one, and 403 with an
\* empty body otherwise.
C7_HandshakeWhenNotEmpty ==
    \A r \in Tasks :
        ( /\ Done(r, "GET")
          /\ Has(tasks[r].query, "hub.mode")
          /\ Lookup(tasks[r].query, "hub.mode") # ""
          /\ Has(tasks[r].query, "hub.verify_token")
          /\ Lookup(tasks[r].query, "hub.verify_token") # "" )
        => tasks[r].resp =
             IF /\ Lookup(tasks[r].query, "hub.mode") = "subscribe"
                /\ TokenMatches(tasks[r].query)
             THEN Response(200, Challenge(tasks[r].query))
             ELSE Response(403, "")

\* the handshake of the spec's example: the challenge abc123 echoed
C7_Witness ==
    \E r \in Tasks :
        /\ Done(r, "GET")
        /\ tasks[r].query = {Pair("hub.mode", "subscribe"),
                             Pair("hub.verify_token", "verify-token"),
                             Pair("hub.challenge", "abc123")}
        /\ tasks[r].resp = Response(200, "abc123")

\* the replayed POST served by a task of its own, on its own
AloneTask ==
    AfterBody([Idle EXCEPT !.method = "POST", !.headers = replayed.headers,
                           !.body = replayed.body])

AloneResponse ==
    IF AloneTask.pc = "done" THEN AloneTask.resp ELSE Response(200, "")

AloneCalls == RepliesToAll(AloneTask.messages)

\* C8: no deduplication, no state across requests: the same valid POST
\* delivered to k tasks, one after the other or interleaved, makes k
\* copies of the sends of one delivery, and every delivery is answered as
\* it would be alone.
C8_ReplaysAreIndependent ==
    /\ \A r \in Tasks :
          Served(r, "POST")
          => /\ Len(Calls(r)) <= Len(AloneCalls)
             /\ Calls(r) = SubSeq(AloneCalls, 1, Len(Calls(r)))
             /\ tasks[r].pc = "done"
                  => /\ tasks[r].resp = AloneResponse
                     /\ Calls(r) = AloneCalls
    /\ (\A r \in Tasks : Done(r, "POST"))
          => Len(sends) = MaxDeliveries * Len(AloneCalls)

\* every delivery of a POST with two commands is answered 200, and the
\* sends of the deliveries are interleaved
C8_Witness ==
    /\ \A r \in Tasks : Done(r, "POST") /\ tasks[r].resp.status = 200
    /\ Len(sends) = 2 * MaxDeliveries
    /\ sends[1].task # sends[2].task
    /\ sends[1].message = sends[2].message

\* the first key missing on the way entry[0].changes[0].value.messages: a
\* dict on that way lacks the key the code reads from it
LacksEnvelopeKey(update) ==
    /\ update.t = "obj"
    /\ \/ ~HasKey(update, K_entry)
       \/ LET entries == DictGet(update, K_entry, JNull)
          IN  /\ entries.t = "list" /\ Len(entries.items) > 0
              /\ entries.items[1].t = "obj"
              /\ \/ ~HasKey(entries.items[1], K_changes)
                 \/ LET changes == DictGet(entries.items[1], K_changes, JNull)
                    IN  /\ changes.t = "list" /\ Len(changes.items) > 0
                        /\ changes.items[1].t = "obj"
                        /\ \/ ~HasKey(changes.items[1], K_field)
                           \/ ~HasKey(changes.items[1], K_value)
                           \/ LET value == DictGet(changes.items[1], K_value, JNull)
                              IN  value.t = "obj" /\ ~HasKey(value, K_messages)

\* C9: in a correctly signed POST whose body is JSON, a missing envelope
\* key (entry, changes, field, value, messages) reads as an empty default:
\* the answer is 200, never 500, and no send is made.
C9_MissingKeyIs200 ==
    \A r \in Tasks :
        ( /\ Served(r, "POST")
          /\ tasks[r].verdict = "True"
          /\ Document(tasks[r].body) # NotJson
          /\ LacksEnvelopeKey(Document(tasks[r].body)) )
        => /\ tasks[r].pc \in {"loop", "done"}
           /\ tasks[r].pc = "done" => tasks[r].resp = Response(200, "")
           /\ tasks[r].seen = <<>>
           /\ SendsOf(r) = <<>>

\* the body {} has been answered 200
C9_Witness ==
    \E r \in Tasks :
        /\ Done(r, "POST")
        /\ tasks[r].verdict = "True"
        /\ Document(tasks[r].body) = JObj(<<>>)
        /\ tasks[r].resp.status = 200

\* the envelope has several entries, or several changes in its first entry
HasFanOut(update) ==
    \/ /\ HasKey(update, K_entry)
       /\ Len(DictGet(update, K_entry, JNull).items) > 1
    \/ /\ HasKey(FirstUnder(update, K_entry), K_changes)
       /\ Len(DictGet(FirstUnder(update, K_entry), K_changes, JNull).items) > 1

\* C10: of a correctly signed POST with several entries or several changes
\* only entry[0].changes[0] is consulted: the messages processed and the
\* sends made are those of its messages when its field is "messages";
\* messages of another entry or change make no send and leave the
\* response 200.
C10_OnlyFirstChange ==
    \A r \in Tasks :
        ( /\ Served(r, "POST")
          /\ tasks[r].verdict = "True"
          /\ EnvelopeShaped(Document(tasks[r].body))
          /\ HasFanOut(Document(tasks[r].body)) )
        => LET first == FirstChangeMessages(Document(tasks[r].body))
           IN  /\ tasks[r].pc \in {"loop", "done"}
               /\ Len(tasks[r].seen) <= Len(first)
               /\ tasks[r].seen = SubSeq(first, 1, Len(tasks[r].seen))
               /\ Calls(r) = RepliesToAll(tasks[r].seen)
               /\ tasks[r].pc = "done"
                    => /\ tasks[r].resp = Response(200, "")
                       /\ tasks[r].seen = first

\* an envelope whose first change holds a status command, whose second
\* change and second entry hold help commands: one send, the status text
C10_Witness ==
    \E r \in Tasks :
        /\ Done(r, "POST")
        /\ Document(tasks[r].body)
             = FanOut(<<Status123>>, <<Help456>>, <<Help456>>, K_messages)
        /\ Calls(r) = <<[to |-> JStr(Chars123), message |-> StatusText]>>
        /\ tasks[r].resp.status = 200

====
